---- MODULE Spec2Model ----
(***************************************************************************)
(* Model of the two command-line utilities of the repository:              *)
(*   cli/convert-comments.py   (the comment Reshaper)                      *)
(*   scripts/preprocess-spec.py (the OpenAPI schema Patcher)               *)
(* Python values are modelled structurally: a dict is a function from its  *)
(* keys to its values; the JSON/Python scalars and lists that the code     *)
(* never looks inside are opaque strings naming the value.                 *)
(***************************************************************************)
EXTENDS Naturals, Sequences, FiniteSets, TLC

VARIABLES
    file,       \* Reshaper: the lines of the input, as fileinput yields them
    pos,        \* Reshaper: number of lines fileinput has yielded so far
    item,       \* Reshaper: the value travelling through the map() pipeline
    rpc,        \* Reshaper: position in run's lazy pipeline
    stdout,     \* Reshaper: the lines written to sys.stdout so far
    flushed,    \* Reshaper: whether sys.stdout.flush() of run was executed
    rexit,      \* Reshaper: process outcome ("running", "ok", or the exception)
    pin,        \* Patcher: the document held by the input file
    pdoc,       \* Patcher: the in-memory document `spec`
    pout,       \* Patcher: the output file (Unwritten or a document)
    ppc,        \* Patcher: position in preprocess_spec
    valid1,     \* Patcher: result of the first validate_schemas call
    valid2,     \* Patcher: result of the second validate_schemas call
    fixed1,     \* Patcher: <<schema, prop>> pairs replaced by fix_none_typed_ids
    fixed2,     \* Patcher: <<schema, prop>> pairs replaced by fix_invalid_schemas
    report,     \* Patcher: the final status line printed
    pexit       \* Patcher: process outcome

rvars == <<file, pos, item, rpc, stdout, flushed, rexit>>
pvars == <<pin, pdoc, pout, ppc, valid1, valid2, fixed1, fixed2, report, pexit>>
vars == <<file, pos, item, rpc, stdout, flushed, rexit,
          pin, pdoc, pout, ppc, valid1, valid2, fixed1, fixed2, report, pexit>>

\* Largest number of input lines of a Reshaper run.
MaxLines == 2

(***************************************************************************)
(*                         The comment Reshaper                            *)
(***************************************************************************)

\* Python's None, which is also what json.loads gives for JSON null.
None == "None"

\* The four keys convert_comment looks up.
SpecialKeys ==
    {"assigned_labels", "dismissed_labels", "assigned_entities", "dismissed_entities"}

\* Keys of a comment that convert_comment does not look up.
OtherKeys == {"id", "text"}

\* JSON values a key may carry: null, an empty list, a non-empty list.
JsonValues == {None, "[]", "['a']"}

\* All dicts with keys among K and values among V.
Dicts(K, V) == UNION {[D -> V] : D \in SUBSET K}

\* dict.get(key): the value, or None when the key is missing.
Get(d, key) == IF key \in DOMAIN d THEN d[key] ELSE None

\* Del with the deletions left out: the keys are copied, not moved.
DelNothing(d, keys) == d

\* del d[k] for every k of keys.
Del(d, keys) == [k \in DOMAIN d \ keys |-> d[k]]

\* Group with `if assigned_labels:` in place of `is not None`: an empty list
\* counts as missing.
GroupTruthy(assigned, dismissed) ==
    [k \in (IF assigned \notin {None, "[]"} THEN {"assigned"} ELSE {})
           \cup (IF dismissed \notin {None, "[]"} THEN {"dismissed"} ELSE {})
       |-> IF k = "assigned" THEN assigned ELSE dismissed]

\* The `labellings` / `entities` dict built from the two looked-up values.
Group(assigned, dismissed) ==
    [k \in (IF assigned # None THEN {"assigned"} ELSE {})
           \cup (IF dismissed # None THEN {"dismissed"} ELSE {})
       |-> IF k = "assigned" THEN assigned ELSE dismissed]

\* Deleted with `key in old_comment` in place of `is not None`.
DeletedIfPresent(old_comment) == SpecialKeys \cap DOMAIN old_comment

\* The keys deleted from old_comment: those whose looked-up value is not None.
Deleted(old_comment) == {k \in SpecialKeys : Get(old_comment, k) # None}

convert_comment(old_comment) ==
    LET labellings == Group(Get(old_comment, "assigned_labels"),
                            Get(old_comment, "dismissed_labels"))
        entities == Group(Get(old_comment, "assigned_entities"),
                          Get(old_comment, "dismissed_entities"))
        mutated == Del(old_comment, Deleted(old_comment))
    IN [k \in {"comment"}
              \cup (IF Cardinality(DOMAIN labellings) > 0 THEN {"labelling"} ELSE {})
              \cup (IF Cardinality(DOMAIN entities) > 0 THEN {"entities"} ELSE {})
          |-> CASE k = "comment" -> mutated
                [] k = "labelling" -> labellings
                [] k = "entities" -> entities]

\* A line of text: the serialisation of a JSON object, of a JSON value that
\* is not an object, or text that is not JSON at all.
ObjectLine(d) == [kind |-> "object", obj |-> d]
ScalarLine == [kind |-> "scalar"]
MalformedLine == [kind |-> "malformed"]

\* json.loads: the Python value of a well-formed line (a malformed line raises).
json_loads(line) ==
    IF line.kind = "object" THEN [py |-> "dict", d |-> line.obj]
    ELSE [py |-> "list"]

\* json.dumps of a dict: the line of text that serialises it.
json_dumps(d) == ObjectLine(d)

NoItem == [py |-> "none"]

\* fileinput.input yields the next line.
ReadLine ==
    /\ rpc = "next"
    /\ pos < Len(file)
    /\ pos' = pos + 1
    /\ item' = file[pos + 1]
    /\ rpc' = "loads"
    /\ UNCHANGED <<file, stdout, flushed, rexit>>
    /\ UNCHANGED pvars

\* fileinput is exhausted: the for loop ends and run flushes stdout.
EndOfInput ==
    /\ rpc = "next"
    /\ pos = Len(file)
    /\ rpc' = "done"
    /\ flushed' = TRUE
    /\ rexit' = "ok"
    /\ UNCHANGED <<file, pos, item, stdout>>
    /\ UNCHANGED pvars

\* Loads with the exception caught per line: the bad line is skipped.
LoadsSkipBad ==
    /\ rpc = "loads"
    /\ IF item.kind = "malformed"
       THEN /\ rpc' = "next"
            /\ item' = NoItem
       ELSE /\ rpc' = "convert"
            /\ item' = json_loads(item)
    /\ UNCHANGED <<file, pos, stdout, flushed, rexit>>
    /\ UNCHANGED pvars

\* map(json.loads, ...): parse the line; a malformed line raises, and nothing
\* in run or main catches it.
Loads ==
    /\ rpc = "loads"
    /\ IF item.kind = "malformed"
       THEN /\ rpc' = "error"
            /\ rexit' = "JSONDecodeError"
            /\ item' = NoItem
       ELSE /\ rpc' = "convert"
            /\ item' = json_loads(item)
            /\ UNCHANGED rexit
    /\ UNCHANGED <<file, pos, stdout, flushed>>
    /\ UNCHANGED pvars

\* map(convert_comment, ...): a value that is not a dict has no .get.
Convert ==
    /\ rpc = "convert"
    /\ IF item.py = "dict"
       THEN /\ rpc' = "dumps"
            /\ item' = [py |-> "dict", d |-> convert_comment(item.d)]
            /\ UNCHANGED rexit
       ELSE /\ rpc' = "error"
            /\ rexit' = "AttributeError"
            /\ item' = NoItem
    /\ UNCHANGED <<file, pos, stdout, flushed>>
    /\ UNCHANGED pvars

\* map(json.dumps, ...): serialise the new comment.
Dumps ==
    /\ rpc = "dumps"
    /\ item' = json_dumps(item.d)
    /\ rpc' = "write"
    /\ UNCHANGED <<file, pos, stdout, flushed, rexit>>
    /\ UNCHANGED pvars

\* WriteLine that puts the new line in front of the earlier ones.
WriteLineReversed ==
    /\ rpc = "write"
    /\ stdout' = <<item>> \o stdout
    /\ item' = NoItem
    /\ rpc' = "next"
    /\ UNCHANGED <<file, pos, flushed, rexit>>
    /\ UNCHANGED pvars

\* The loop body: the serialised comment and a newline go to sys.stdout.
WriteLine ==
    /\ rpc = "write"
    /\ stdout' = Append(stdout, item)
    /\ item' = NoItem
    /\ rpc' = "next"
    /\ UNCHANGED <<file, pos, flushed, rexit>>
    /\ UNCHANGED pvars

NextR == ReadLine \/ EndOfInput \/ Loads \/ Convert \/ Dumps \/ WriteLine

\* Input lines for the single-record runs: every dict over the six keys.
AllLines ==
    {ObjectLine(d) : d \in Dicts(SpecialKeys \cup OtherKeys, JsonValues)}
        \cup {ScalarLine, MalformedLine}

\* Input lines for the multi-line runs: dicts over three of the keys.
FewLines ==
    {ObjectLine(d) :
        d \in Dicts({"assigned_labels", "dismissed_entities", "id"}, {None, "['a']"})}
        \cup {ScalarLine, MalformedLine}

SeqsUpTo(S, n) == UNION {[1..m -> S] : m \in 0..n}

(***************************************************************************)
(*                          The schema Patcher                             *)
(***************************************************************************)

\* Largest number of schemas under components.schemas.
MaxSchemas == 2

\* Largest number of properties of one schema.
MaxProps == 1

EmptyDict == [k \in {} |-> None]

\* The two schemas fix_none_typed_ids names, and one it does not.
NamedSchemas == {"EntityDefNew", "FieldChoiceNewApi"}
SchemaNames == NamedSchemas \cup {"Widget"}
PropNames == {"id", "color"}

\* A property definition: a dict, or a value that is not a dict.
DictProp(d) == [py |-> "dict", d |-> d]
PNullType == DictProp("type" :> "null")
PEnumNull == DictProp("enum" :> "[None]")
PString == DictProp("type" :> "string")
PNone == [py |-> "NoneType"]
PStrNone == [py |-> "str", s |-> "NONE"]

\* The replacement both fix passes write: {'type': 'string', 'nullable': True}.
NullableString == DictProp("type" :> "string" @@ "nullable" :> "True")

PropVals == {PNullType, PEnumNull, PString, NullableString, PNone, PStrNone}

\* str(prop): a dict prints as "{...}", None as "None", a string as itself.
Str(prop) ==
    CASE prop.py = "dict" -> "{...}"
      [] prop.py = "NoneType" -> "None"
      [] prop.py = "str" -> prop.s

\* str.lower() on the strings of the model.
Lower(s) == IF s \in {"None", "NONE", "none"} THEN "none" ELSE s

\* IsNullTyped without the `enum == [None]` alternative.
IsNullTypedNoEnum(prop) ==
    /\ prop.py = "dict"
    /\ \/ Get(prop.d, "type") = "null"
       \/ Lower(Str(prop)) = "none"

\* The test of both fix passes: a dict typed as None or null.
IsNullTyped(prop) ==
    /\ prop.py = "dict"
    /\ \/ Get(prop.d, "type") = "null"
       \/ Get(prop.d, "enum") = "[None]"
       \/ Lower(Str(prop)) = "none"

\* The test of validate_schemas: the same without the str() comparison.
IsInvalid(prop) ==
    /\ prop.py = "dict"
    /\ \/ Get(prop.d, "type") = "null"
       \/ Get(prop.d, "enum") = "[None]"

\* The guard all three functions start with.
HasSchemas(spec) ==
    /\ "components" \in DOMAIN spec
    /\ "schemas" \in DOMAIN spec["components"]

Schemas(spec) == spec["components"]["schemas"]

\* Every <<schema, property>> of the document (schemas that have 'properties').
AllProps(spec) ==
    IF HasSchemas(spec)
    THEN {sp \in (DOMAIN Schemas(spec)) \X PropNames :
            /\ "properties" \in DOMAIN Schemas(spec)[sp[1]]
            /\ sp[2] \in DOMAIN Schemas(spec)[sp[1]]["properties"]}
    ELSE {}

PropAt(spec, sp) == Schemas(spec)[sp[1]]["properties"][sp[2]]

\* schema['properties'][prop_name] = new for every <<schema, property>> of hits.
Replace(spec, hits, new) ==
    IF hits = {} THEN spec
    ELSE [spec EXCEPT !["components"]["schemas"] =
            [n \in DOMAIN Schemas(spec) |->
                IF "properties" \in DOMAIN Schemas(spec)[n]
                THEN [Schemas(spec)[n] EXCEPT !["properties"] =
                        [p \in DOMAIN Schemas(spec)[n]["properties"] |->
                            IF <<n, p>> \in hits THEN new
                            ELSE Schemas(spec)[n]["properties"][p]]]
                ELSE Schemas(spec)[n]]]

\* TargetedHits without the null-type test: `id` is replaced whatever it is.
TargetedHitsUnchecked(spec) ==
    {sp \in AllProps(spec) : sp[1] \in NamedSchemas /\ sp[2] = "id"}

\* The properties fix_none_typed_ids replaces: `id` of the two named schemas.
TargetedHits(spec) ==
    {sp \in AllProps(spec) :
        sp[1] \in NamedSchemas /\ sp[2] = "id" /\ IsNullTyped(PropAt(spec, sp))}

\* The properties fix_invalid_schemas replaces.
SweepHits(spec) == {sp \in AllProps(spec) : IsNullTyped(PropAt(spec, sp))}

\* fix_none_typed_ids writing {'type': 'string'}, the 'nullable' left out.
fix_none_typed_ids_not_nullable(spec) == Replace(spec, TargetedHits(spec), PString)

fix_none_typed_ids(spec) == Replace(spec, TargetedHits(spec), NullableString)

fix_invalid_schemas(spec) == Replace(spec, SweepHits(spec), NullableString)

validate_schemas(spec) == \A sp \in AllProps(spec) : ~IsInvalid(PropAt(spec, sp))

Unwritten == [written |-> FALSE]

\* The value a validate_schemas call returned, as valid1 / valid2 hold it.
Bool(b) == IF b THEN "True" ELSE "False"

\* with open(input_file) ... json.load
LoadSpec ==
    /\ ppc = "load"
    /\ pdoc' = pin
    /\ ppc' = "validate_input"
    /\ UNCHANGED <<pin, pout, valid1, valid2, fixed1, fixed2, report, pexit>>
    /\ UNCHANGED rvars

\* The first validate_schemas call; both outcomes only print.
ValidateInput ==
    /\ ppc = "validate_input"
    /\ valid1' = Bool(validate_schemas(pdoc))
    /\ ppc' = "fix_ids"
    /\ UNCHANGED <<pin, pdoc, pout, valid2, fixed1, fixed2, report, pexit>>
    /\ UNCHANGED rvars

\* spec = fix_none_typed_ids(spec)
FixIds ==
    /\ ppc = "fix_ids"
    /\ fixed1' = TargetedHits(pdoc)
    /\ pdoc' = fix_none_typed_ids(pdoc)
    /\ ppc' = "fix_all"
    /\ UNCHANGED <<pin, pout, valid1, valid2, fixed2, report, pexit>>
    /\ UNCHANGED rvars

\* spec = fix_invalid_schemas(spec)
FixAll ==
    /\ ppc = "fix_all"
    /\ fixed2' = SweepHits(pdoc)
    /\ pdoc' = fix_invalid_schemas(pdoc)
    /\ ppc' = "validate_output"
    /\ UNCHANGED <<pin, pout, valid1, valid2, fixed1, report, pexit>>
    /\ UNCHANGED rvars

\* The second validate_schemas call: on failure print and return.
ValidateOutput ==
    /\ ppc = "validate_output"
    /\ valid2' = Bool(validate_schemas(pdoc))
    /\ IF validate_schemas(pdoc)
       THEN /\ ppc' = "write"
            /\ UNCHANGED <<report, pexit>>
       ELSE /\ ppc' = "done"
            /\ report' = "Output spec still has issues!"
            /\ pexit' = "ok"
    /\ UNCHANGED <<pin, pdoc, pout, valid1, fixed1, fixed2>>
    /\ UNCHANGED rvars

\* WriteOutput placed before the second validation.
WriteOutputEarly ==
    /\ ppc = "validate_output"
    /\ pout' = pdoc
    /\ report' = "Preprocessed spec written"
    /\ pexit' = "ok"
    /\ ppc' = "done"
    /\ UNCHANGED <<pin, pdoc, valid1, valid2, fixed1, fixed2>>
    /\ UNCHANGED rvars

\* json.dump(spec, f, indent=2), the last print, and the return.
WriteOutput ==
    /\ ppc = "write"
    /\ pout' = pdoc
    /\ report' = "Preprocessed spec written"
    /\ pexit' = "ok"
    /\ ppc' = "done"
    /\ UNCHANGED <<pin, pdoc, valid1, valid2, fixed1, fixed2>>
    /\ UNCHANGED rvars

NextP == LoadSpec \/ ValidateInput \/ FixIds \/ FixAll \/ ValidateOutput \/ WriteOutput

\* The mappings of at most n keys among K, with values among V.
DictsUpTo(K, V, n) == UNION {[D -> V] : D \in {E \in SUBSET K : Cardinality(E) <= n}}

\* The schema definitions: mappings, with or without 'properties'.  A schema
\* definition that is not a mapping, or a `properties` that is not one, is
\* outside the documents modelled here.
SchemaDefs ==
    {EmptyDict} \cup {"properties" :> ps : ps \in DictsUpTo(PropNames, PropVals, MaxProps)}

\* The input documents: without components, without components.schemas, or
\* with at most MaxSchemas schemas.
Docs ==
    {EmptyDict, "components" :> EmptyDict}
        \cup {"components" :> ("schemas" :> m) :
                m \in DictsUpTo(SchemaNames, SchemaDefs, MaxSchemas)}

(***************************************************************************)
(*                           Specifications                                *)
(***************************************************************************)

PatcherIdle ==
    /\ pin = Unwritten
    /\ pdoc = Unwritten
    /\ pout = Unwritten
    /\ ppc = "idle"
    /\ valid1 = "unset"
    /\ valid2 = "unset"
    /\ fixed1 = {}
    /\ fixed2 = {}
    /\ report = "none"
    /\ pexit = "idle"

ReshaperStart ==
    /\ pos = 0
    /\ item = NoItem
    /\ rpc = "next"
    /\ stdout = <<>>
    /\ flushed = FALSE
    /\ rexit = "running"

ReshaperIdle ==
    /\ file = <<>>
    /\ pos = 0
    /\ item = NoItem
    /\ rpc = "idle"
    /\ stdout = <<>>
    /\ flushed = FALSE
    /\ rexit = "idle"

InitConvert ==
    /\ file \in {<<l>> : l \in AllLines}
    /\ ReshaperStart
    /\ PatcherIdle

InitRun ==
    /\ file \in SeqsUpTo(FewLines, MaxLines)
    /\ ReshaperStart
    /\ PatcherIdle

InitPatch ==
    /\ pin \in Docs
    /\ pdoc = Unwritten
    /\ pout = Unwritten
    /\ ppc = "load"
    /\ valid1 = "unset"
    /\ valid2 = "unset"
    /\ fixed1 = {}
    /\ fixed2 = {}
    /\ report = "none"
    /\ pexit = "running"
    /\ ReshaperIdle

\* One record through the Reshaper, every record shape.
SpecConvert == InitConvert /\ [][NextR]_vars

\* Up to MaxLines lines through the Reshaper.
SpecRun == InitRun /\ [][NextR]_vars

\* One document through the Patcher.
SpecPatch == InitPatch /\ [][NextP]_vars

(***************************************************************************)
(*                        Properties of the Reshaper                       *)
(***************************************************************************)

LabelKeys == {"assigned_labels", "dismissed_labels"}
EntityKeys == {"assigned_entities", "dismissed_entities"}

\* The i-th input record and the i-th output record (i <= Len(stdout)).
In(i) == file[i].obj
Out(i) == stdout[i].obj

\* Where a special key's value goes in the output.
HomeGroup(k) == IF k \in LabelKeys THEN "labelling" ELSE "entities"
HomeKey(k) == IF k \in {"assigned_labels", "assigned_entities"} THEN "assigned" ELSE "dismissed"
InHome(out, k) ==
    /\ HomeGroup(k) \in DOMAIN out
    /\ HomeKey(k) \in DOMAIN out[HomeGroup(k)]

\* C1 as stated: the output has `labelling` iff one of assigned_labels /
\* dismissed_labels is a key of the input, whatever its value; likewise
\* `entities`.
C1_OmissionByKeyPresence ==
    \A i \in 1..Len(stdout) :
        /\ ("labelling" \in DOMAIN Out(i)) <=> (LabelKeys \cap DOMAIN In(i) # {})
        /\ ("entities" \in DOMAIN Out(i)) <=> (EntityKeys \cap DOMAIN In(i) # {})

\* C1 amended: the output has `labelling` iff one of assigned_labels /
\* dismissed_labels is a key of the input with a value other than null (an
\* empty list counts, an explicit null does not); likewise `entities`.
C1_OmissionByNonNullValue ==
    \A i \in 1..Len(stdout) :
        /\ ("labelling" \in DOMAIN Out(i))
               <=> (\E k \in LabelKeys \cap DOMAIN In(i) : In(i)[k] # None)
        /\ ("entities" \in DOMAIN Out(i))
               <=> (\E k \in EntityKeys \cap DOMAIN In(i) : In(i)[k] # None)

\* C1 witness: a record whose only label key is assigned_labels: null has
\* been converted without `labelling`, and one with an empty list with it.
C1_Witness ==
    /\ Len(stdout) = 1
    /\ "assigned_labels" \in DOMAIN In(1)
    /\ "dismissed_labels" \notin DOMAIN In(1)
    /\ In(1)["assigned_labels"] = None
    /\ "labelling" \notin DOMAIN Out(1)
    /\ "assigned_entities" \in DOMAIN In(1)
    /\ In(1)["assigned_entities"] = "[]"
    /\ "entities" \in DOMAIN Out(1)

\* C2 as stated: a special key present with the value null is moved: its
\* home (labelling.assigned, ...) holds null and the key is gone from
\* `comment`.
C2_NullIsMoved ==
    \A i \in 1..Len(stdout) : \A k \in SpecialKeys \cap DOMAIN In(i) :
        In(i)[k] = None =>
            /\ InHome(Out(i), k)
            /\ Out(i)[HomeGroup(k)][HomeKey(k)] = None
            /\ k \notin DOMAIN Out(i)["comment"]

\* C2 amended: a special key present with the value null is treated like a
\* missing key: it gets no home in the output and stays in `comment` with
\* the value null.
C2_NullIsLeftInComment ==
    \A i \in 1..Len(stdout) : \A k \in SpecialKeys \cap DOMAIN In(i) :
        In(i)[k] = None =>
            /\ ~InHome(Out(i), k)
            /\ k \in DOMAIN Out(i)["comment"]
            /\ Out(i)["comment"][k] = None

\* C2 witness: a record with dismissed_entities: null beside a non-null
\* assigned_entities has been converted.
C2_Witness ==
    /\ Len(stdout) = 1
    /\ "dismissed_entities" \in DOMAIN In(1)
    /\ In(1)["dismissed_entities"] = None
    /\ "assigned_entities" \in DOMAIN In(1)
    /\ In(1)["assigned_entities"] = "['a']"
    /\ "entities" \in DOMAIN Out(1)
    /\ "dismissed_entities" \in DOMAIN Out(1)["comment"]

\* C3: a special key whose value is in its home holds the input's value there
\* and is not a key of `comment`; every other key of the input is in `comment`
\* with its value, and `comment` has no key the input lacks.
C3_MovedNeverCopied ==
    \A i \in 1..Len(stdout) :
        /\ \A k \in SpecialKeys :
              InHome(Out(i), k) =>
                  /\ k \notin DOMAIN Out(i)["comment"]
                  /\ k \in DOMAIN In(i)
                  /\ Out(i)[HomeGroup(k)][HomeKey(k)] = In(i)[k]
        /\ \A k \in DOMAIN In(i) \ SpecialKeys :
              /\ k \in DOMAIN Out(i)["comment"]
              /\ Out(i)["comment"][k] = In(i)[k]
        /\ DOMAIN Out(i)["comment"] \subseteq DOMAIN In(i)

\* C3 witness: a record with assigned_labels, dismissed_entities, id and text
\* has been converted, both special values moved.
C3_Witness ==
    /\ Len(stdout) = 1
    /\ DOMAIN In(1) = {"assigned_labels", "dismissed_entities", "id", "text"}
    /\ In(1)["assigned_labels"] = "['a']"
    /\ In(1)["dismissed_entities"] = "[]"
    /\ InHome(Out(1), "assigned_labels")
    /\ InHome(Out(1), "dismissed_entities")
    /\ DOMAIN Out(1)["comment"] = {"id", "text"}

AllObjects == \A i \in 1..Len(file) : file[i].kind = "object"

\* C4: the i-th line written is the conversion of the i-th input line; a line
\* is read only when every earlier line's output is written; and a run over
\* object lines only ends with as many lines written as read.
C4_OneOutputPerInputInOrder ==
    /\ \A i \in 1..Len(stdout) :
          /\ i <= Len(file)
          /\ file[i].kind = "object"
          /\ stdout[i] = json_dumps(convert_comment(json_loads(file[i]).d))
    /\ Len(stdout) <= pos
    /\ pos <= Len(stdout) + 1
    /\ (rpc = "next" => pos = Len(stdout))
    /\ (AllObjects /\ rpc \in {"done", "error"}) =>
          /\ rpc = "done"
          /\ rexit = "ok"
          /\ flushed
          /\ Len(stdout) = Len(file)

\* C4 witness: a run over two different object lines has ended.
C4_Witness ==
    /\ rpc = "done"
    /\ Len(file) = 2
    /\ AllObjects
    /\ file[1] # file[2]
    /\ Len(stdout) = 2
    /\ stdout[1] # stdout[2]

\* C9: with a malformed line at position i, nothing is written for line i or
\* a later one, no later line is read, the run never ends normally, and
\* parsing line i ends the run with the parse error.
C9_MalformedLineAborts ==
    \A i \in 1..Len(file) :
        file[i].kind = "malformed" =>
            /\ Len(stdout) < i
            /\ pos <= i
            /\ rexit # "ok"
            /\ rpc # "done"
            /\ (pos = i /\ rpc # "loads") =>
                  /\ rpc = "error"
                  /\ rexit = "JSONDecodeError"

\* C9 witness: a malformed first line followed by an object line has ended
\* the run with nothing written.
C9_Witness ==
    /\ Len(file) = 2
    /\ file[1].kind = "malformed"
    /\ file[2].kind = "object"
    /\ rpc = "error"
    /\ rexit = "JSONDecodeError"
    /\ stdout = <<>>

(***************************************************************************)
(*                        Properties of the Patcher                        *)
(***************************************************************************)

Written == pout # Unwritten

\* A property value that denotes the null type in the sense of C5: by its
\* type, by its enum, or by its lower-cased str(), a dict or not.
DenotesNull(prop) ==
    \/ /\ prop.py = "dict"
       /\ \/ Get(prop.d, "type") = "null"
          \/ Get(prop.d, "enum") = "[None]"
    \/ Lower(Str(prop)) = "none"

\* C5: no property of the written document denotes the null type, the
\* properties that are not mappings included.
C5_NoNullDenotingProperty ==
    Written => \A sp \in AllProps(pout) : ~DenotesNull(PropAt(pout, sp))

\* C6: validate_schemas is true of fix_invalid_schemas of every document, the
\* second validation of the flow returns true, and the failure line is never
\* printed.
C6_ValidAfterSweep ==
    /\ (pin # Unwritten) => validate_schemas(fix_invalid_schemas(pin))
    /\ (ppc \in {"validate_output", "write", "done"}) => validate_schemas(pdoc)
    /\ (ppc \in {"write", "done"}) => valid2 = "True"
    /\ report # "Output spec still has issues!"

\* C6 witness: a document that failed the first validation passed the second
\* after the sweep replaced a property.
C6_Witness ==
    /\ ppc = "done"
    /\ valid1 = "False"
    /\ valid2 = "True"
    /\ fixed2 # {}

CleanInput == \A sp \in AllProps(pin) : ~IsNullTyped(PropAt(pin, sp))

C8_WriteOnlyAfterValidation ==
    /\ Written =>
          /\ valid2 = "True"
          /\ ppc = "done"
          /\ pout = pdoc
          /\ pout = Replace(pin, fixed1 \cup fixed2, NullableString)
          /\ report = "Preprocessed spec written"
    /\ (valid2 = "False") =>
          /\ ~Written
          /\ ppc = "done"
          /\ report = "Output spec still has issues!"
          /\ pexit = "ok"
    /\ (ppc = "done") => pexit = "ok"

\* C8 witness: a document needing fixes from both passes has been written.
C8_Witness ==
    /\ Written
    /\ valid1 = "False"
    /\ pout # pin
    /\ fixed1 # {}
    /\ fixed2 # {}

====
